---- MODULE Spec2Model ----
(***************************************************************************)
(* A model of github3api's GitHubAPI client (githubapi.py): REST paging    *)
(* (_get_all, _get_page, get), total(), the rate-limit classifiers and the *)
(* graphql entry point with its retry decorator.                           *)
(*                                                                         *)
(* Strings are sequences of string tokens.  Every substring the code       *)
(* searches for ('per_page', '?', 'page=', 'https://<host>', digits) lies  *)
(* on token boundaries, so str.replace, `in` and re.match are computed on  *)
(* tokens exactly as the code computes them on characters.  Numbers inside *)
(* a URL are runs of one-character digit tokens.                           *)
(***************************************************************************)
EXTENDS Integers, Sequences, FiniteSets, TLC

\* ------------------------------------------------------------------ bounds
MaxPages == 3
MaxItems == 2
MaxRequests == 5

\* --------------------------------------------------------- module constants
HOSTNAME == "api.github.com"
DEFAULT_PAGE_SIZE == 30
DEFAULT_GRAPHQL_PAGE_SIZE == 100
\* seconds in a minute, the divisor of get_ratelimit
SECONDS_PER_MINUTE == 60

VARIABLES
    hostname,    \* self.hostname of the client
    pc,          \* position of the call / of the generator
    endpoint,    \* local variable endpoint of _get_all / _get_page / total
    requests,    \* every endpoint handed to the HTTP primitive (GET), in order
    yielded,     \* every batch a generator has produced, in order
    pulls,       \* number of next() calls made by the consumer
    result,      \* what the call returned or raised
    rserver,     \* REST server: the sequence of pages it serves
    directive,   \* the _get keyword of get(): "all", "page" or "none"
    attributes,  \* the _attributes keyword of get(): <<>> is None
    items,       \* local accumulator of _get_all
    response,    \* local variable response of the suspended generator
    targ,        \* total(): the endpoint argument
    tfirst,      \* total(): the server's answer to the first request
    tlast,       \* total(): number of items the server returns for the last page
    exc,         \* the exception handed to a retry classifier
    failures,    \* REST transport: how many attempts of the request raise exc
    gquery,      \* graphql(): the query argument
    gorig,       \* graphql(): the variables mapping as the caller built it
    gvars,       \* graphql(): the caller's variables mapping (a shared object)
    gpage,       \* graphql(): the page argument
    gkeys,       \* graphql(): the keys argument
    gconn,       \* GraphQL server: number of pages of the connection
    gscript,     \* GraphQL server: which POSTs it answers with a failure body
    attempts,    \* attempt number of the retry wrapper around graphql()
    clock,       \* milliseconds the retry wrapper has slept
    posts,       \* every JSON body POSTed to /graphql, in order
    gresp,       \* local variable response of the suspended graphql generator
    cshared,     \* two paged traversals: the caller passed one mapping to both
    cmaps,       \* two paged traversals: the variables mappings (objects)
    cpc,         \* two paged traversals: position of each generator's thread
    cquery,      \* two paged traversals: local variable updated_query of each
    cposts,      \* two paged traversals: the JSON bodies each has POSTed
    cresp,       \* two paged traversals: local variable response of each
    rresp,       \* get_response: the response, rate-limit headers apart
    rheaders,    \* get_response: the rate-limit headers of its two variants
    rnow,        \* get_response: datetime.now(), in seconds
    rout,        \* get_response: what the call did for each variant
    rlogs        \* get_response: what log_ratelimit logged for each variant

sharedVars == <<hostname, pc, endpoint, requests, yielded, pulls, result>>
restOnly == <<rserver, directive, attributes, items, response>>
totalOnly == <<targ, tfirst, tlast>>
clsOnly == <<exc, failures>>
gqlOnly == <<gquery, gorig, gvars, gpage, gkeys, gconn, gscript, attempts, clock,
             posts, gresp>>

concOnly == <<cshared, cmaps, cpc, cquery, cposts, cresp>>
teleOnly == <<rresp, rheaders, rnow, rout, rlogs>>

vars == <<sharedVars, restOnly, totalOnly, clsOnly, gqlOnly, concOnly, teleOnly>>

\* ----------------------------------------------------------------- strings
Range(s) == {s[i] : i \in DOMAIN s}

DigitChars == <<"0", "1", "2", "3", "4", "5", "6", "7", "8", "9">>

IsDigit(t) == t \in Range(DigitChars)

DigitVal(t) == (CHOOSE i \in DOMAIN DigitChars : DigitChars[i] = t) - 1

\* str(n) for n >= 0, as digit tokens
RECURSIVE ToDigits(_)
ToDigits(n) ==
    IF n < 10 THEN <<DigitChars[n + 1]>>
    ELSE Append(ToDigits(n \div 10), DigitChars[(n % 10) + 1])

\* int(s) for a non-empty run of digit tokens
RECURSIVE ToInt(_)
ToInt(s) ==
    IF Len(s) = 0 THEN 0
    ELSE 10 * ToInt(SubSeq(s, 1, Len(s) - 1)) + DigitVal(s[Len(s)])

\* old in s  (substring test), old non-empty
Contains(s, old) ==
    \E i \in 1..(Len(s) - Len(old) + 1) : SubSeq(s, i, i + Len(old) - 1) = old

\* s.replace(old, ''): every non-overlapping occurrence, left to right
RECURSIVE Remove(_, _)
Remove(s, old) ==
    IF Len(s) < Len(old) THEN s
    ELSE IF SubSeq(s, 1, Len(old)) = old
         THEN Remove(SubSeq(s, Len(old) + 1, Len(s)), old)
         ELSE <<Head(s)>> \o Remove(Tail(s), old)

NoUrl == <<>>

\* ------------------------------------------------------ REST server (input)
\* An item of a collection: a JSON object.
Item(p, i) == [id |-> (10 * p) + i, name |-> "n"]

\* The decoded body of page p: a list of k items (k >= 0), or one object (k = -1).
Body(p, k) ==
    IF k < 0 THEN [isList |-> FALSE, list |-> <<>>, obj |-> Item(p, 0)]
    ELSE [isList |-> TRUE, list |-> [i \in 1..k |-> Item(p, i)], obj |-> Item(p, 0)]

StartEndpoint == <<"/items">>

PageUrl(host, p) == <<"https://", host, "/items", "?", "page", "=">> \o ToDigits(p)

NoLinks == <<>>

NextLink(url) == [r \in {"next"} |-> url]

\* a host other than the one the client is configured with
ForeignHost == "uploads.github.com"

\* Page p of a server of n pages: pages before the last link to their successor,
\* the last page carries no relation or a next relation to page `back` on
\* host `linkHost`; only the last response may be an error response
\* (response.ok false).
MkPage(n, kinds, back, linkHost, lastOk, p) ==
    [ok    |-> (p < n) \/ lastOk,
     body  |-> IF (p < n) \/ lastOk THEN Body(p, kinds[p]) ELSE Body(p, -1),
     links |-> IF p < n THEN NextLink(PageUrl(HOSTNAME, p + 1))
               ELSE IF back = 0 THEN NoLinks
               ELSE NextLink(PageUrl(linkHost, back))]

RestServers ==
    UNION {
      { [p \in 1..n |-> MkPage(n, kinds, back, linkHost, lastOk, p)] :
            kinds \in [1..n -> (-1)..MaxItems],
            back \in 0..n,
            linkHost \in {HOSTNAME, ForeignHost},
            lastOk \in BOOLEAN }
      : n \in 1..MaxPages }

NotFound == [ok |-> FALSE, body |-> Body(0, -1), links |-> NoLinks]

\* The page an endpoint addresses: /items is page 1, /items?page=<digits> is
\* that page, anything else is unknown (0).
ServedPage(ep) ==
    IF ep = StartEndpoint THEN 1
    ELSE IF /\ Len(ep) > 4
            /\ SubSeq(ep, 1, 4) = <<"/items", "?", "page", "=">>
            /\ \A i \in 5..Len(ep) : IsDigit(ep[i])
         THEN ToInt(SubSeq(ep, 5, Len(ep)))
         ELSE 0

\* super().get(endpoint, raw_response=True): the raw response of the server
RawGet(server, ep) ==
    IF ServedPage(ep) \in DOMAIN server THEN server[ServedPage(ep)] ELSE NotFound

\* an endpoint that still is an absolute url
IsAbsolute(ep) == ep # <<>> /\ Head(ep) = "https://"

\* what the HTTP primitive does with an endpoint: it answers with a response;
\* handed an absolute url instead of an endpoint it may also fail to connect
TransportOutcomes(ep) ==
    IF IsAbsolute(ep) THEN {"response", "ConnectionError"} ELSE {"response"}

\* ------------------------------------------------------------ REST paging
\* response.links.get(rel, {}).get('url')
LinkUrl(links, rel) == IF rel \in DOMAIN links THEN links[rel] ELSE NoUrl

\* get_endpoint_from_url: url.replace(f'https://{self.hostname}', '')
get_endpoint_from_url(host, url) == Remove(url, <<"https://", host>>)

\* _get_next_endpoint: None (<<>>) when the url is None or empty
_get_next_endpoint(host, url) ==
    IF url = NoUrl THEN NoUrl ELSE get_endpoint_from_url(host, url)

\* a variant that returns the items with all their keys
match_keys_unfiltered(its, attrs) == its

\* match_keys(items, attributes)
match_keys(its, attrs) ==
    IF attrs = <<>> THEN its
    ELSE [i \in DOMAIN its |->
            [key \in {a \in Range(attrs) : a \in DOMAIN its[i]} |-> its[i][key]]]

\* a variant that never flattens a list payload
AccumulateAppendOnly(its, resp) ==
    IF resp.ok
    THEN Append(its, IF resp.body.isList THEN resp.body.list ELSE resp.body.obj)
    ELSE its

\* _get_all, lines 91-96: extend with a list payload, append any other payload
Accumulate(its, resp) ==
    IF resp.ok
    THEN IF resp.body.isList THEN its \o resp.body.list
         ELSE Append(its, resp.body.obj)
    ELSE its

\* a variant that reads the next relation of a falsy response too
NextUrlOfAnyResponse(resp) == LinkUrl(resp.links, "next")

\* _get_all, lines 89-97: the url of the next relation of a truthy response
NextUrlOf(resp) == IF resp.ok THEN LinkUrl(resp.links, "next") ELSE NoUrl

NoResult == [kind |-> "none", val |-> <<>>]
NoResponse == [ok |-> FALSE, body |-> Body(0, -1), links |-> NoLinks]

NoFirst == [links |-> NoLinks, count |-> 0]
NoExc == [type |-> "none", status |-> 0, reason |-> "", message |-> ""]

RestIdle ==
    /\ rserver = <<>>
    /\ directive = "none"
    /\ attributes = <<>>
    /\ items = <<>>
    /\ response = NoResponse

TotalIdle == targ = <<>> /\ tfirst = NoFirst /\ tlast = 0

ClsIdle == exc = NoExc /\ failures = 0

ConcIdle ==
    /\ cshared = FALSE
    /\ cmaps = <<>>
    /\ cpc = <<>>
    /\ cquery = <<>>
    /\ cposts = <<>>
    /\ cresp = <<>>

TeleIdle ==
    /\ rresp = NoResponse
    /\ rheaders = <<>>
    /\ rnow = 0
    /\ rout = <<>>
    /\ rlogs = <<>>

NoBody == [isNone |-> TRUE, json |-> <<>>]
NoScript == [from |-> 0, limited |-> 0, limitedWith |-> NoBody,
             finalIsData |-> TRUE, final |-> NoBody]

GqlIdle ==
    /\ gquery = <<>>
    /\ gorig = <<>>
    /\ gvars = <<>>
    /\ gpage = FALSE
    /\ gkeys = <<>>
    /\ gconn = 0
    /\ gscript = NoScript
    /\ attempts = 0
    /\ clock = 0
    /\ posts = <<>>
    /\ gresp = NoBody

InitRest ==
    /\ hostname = HOSTNAME
    /\ rserver \in RestServers
    /\ directive \in {"all", "page", "none"}
    /\ attributes \in {<<>>, <<"id", "zz">>}
    /\ pc = "init"
    /\ endpoint = StartEndpoint
    /\ items = <<>>
    /\ response = NoResponse
    /\ requests = <<>>
    /\ yielded = <<>>
    /\ pulls = 0
    /\ result = NoResult
    /\ TotalIdle
    /\ ClsIdle
    /\ ConcIdle
    /\ TeleIdle
    /\ GqlIdle

\* get(endpoint, _get='all'): enters _get_all with an empty accumulator
CallGetAll ==
    /\ pc = "init"
    /\ directive = "all"
    /\ pc' = "get_all"
    /\ items' = <<>>
    /\ UNCHANGED <<hostname, rserver, directive, attributes, endpoint, response,
                   requests, yielded, pulls, result>>
    /\ UNCHANGED <<totalOnly, clsOnly, concOnly, teleOnly, gqlOnly>>

\* one iteration of the while loop of _get_all; the last one returns through
\* match_keys (get, line 124)
GetAllIter ==
    /\ pc = "get_all"
    /\ Len(requests) < MaxRequests
    /\ requests' = Append(requests, endpoint)
    /\ \E outcome \in TransportOutcomes(endpoint) :
          IF outcome = "response"
          THEN LET resp == RawGet(rserver, endpoint)
                   acc  == Accumulate(items, resp)
                   nxt  == _get_next_endpoint(hostname, NextUrlOf(resp))
               IN /\ items' = acc
                  /\ endpoint' = nxt
                  /\ IF nxt = NoUrl
                     THEN /\ pc' = "returned"
                          /\ result' = [kind |-> "return",
                                        val |-> match_keys(acc, attributes)]
                     ELSE UNCHANGED <<pc, result>>
          ELSE /\ pc' = "raised"
               /\ result' = [kind |-> "raise", val |-> outcome]
               /\ UNCHANGED <<items, endpoint>>
    /\ UNCHANGED <<hostname, rserver, directive, attributes, response, yielded, pulls>>
    /\ UNCHANGED <<totalOnly, clsOnly, concOnly, teleOnly, gqlOnly>>

\* a prefetching variant: the first request is issued when the generator is made
CallGetPagePrefetch ==
    /\ pc = "init"
    /\ directive = "page"
    /\ pc' = "gen_suspended"
    /\ response' = RawGet(rserver, endpoint)
    /\ requests' = Append(requests, endpoint)
    /\ yielded' = Append(yielded, RawGet(rserver, endpoint).body)
    /\ UNCHANGED <<hostname, rserver, directive, attributes, endpoint, items,
                   pulls, result>>
    /\ UNCHANGED <<totalOnly, clsOnly, concOnly, teleOnly, gqlOnly>>

\* get(endpoint, _get='page'): returns the generator of _get_page, unstarted
CallGetPage ==
    /\ pc = "init"
    /\ directive = "page"
    /\ pc' = "gen_created"
    /\ UNCHANGED <<hostname, rserver, directive, attributes, endpoint, items,
                   response, requests, yielded, pulls, result>>
    /\ UNCHANGED <<totalOnly, clsOnly, concOnly, teleOnly, gqlOnly>>

\* get(endpoint) without directive: one request, its decoded body returned
CallGetSingle ==
    /\ pc = "init"
    /\ directive = "none"
    /\ requests' = Append(requests, endpoint)
    /\ pc' = "returned"
    /\ result' = IF RawGet(rserver, endpoint).ok
                 THEN [kind |-> "return", val |-> RawGet(rserver, endpoint).body]
                 ELSE [kind |-> "raise", val |-> "HTTPError"]
    /\ UNCHANGED <<hostname, rserver, directive, attributes, endpoint, items,
                   response, yielded, pulls>>
    /\ UNCHANGED <<totalOnly, clsOnly, concOnly, teleOnly, gqlOnly>>

\* the generator runs from its start to the first yield
PullFirst ==
    /\ pc = "gen_created"
    /\ Len(requests) < MaxRequests
    /\ pulls' = pulls + 1
    /\ requests' = Append(requests, endpoint)
    /\ response' = RawGet(rserver, endpoint)
    /\ yielded' = Append(yielded, RawGet(rserver, endpoint).body)
    /\ pc' = "gen_suspended"
    /\ UNCHANGED <<hostname, rserver, directive, attributes, endpoint, items, result>>
    /\ UNCHANGED <<totalOnly, clsOnly, concOnly, teleOnly, gqlOnly>>

\* a variant that ends the generator after its first page
PullResumeStopEarly ==
    /\ pc = "gen_suspended"
    /\ pulls' = pulls + 1
    /\ pc' = "gen_done"
    /\ UNCHANGED <<hostname, rserver, directive, attributes, endpoint, items,
                   response, requests, yielded, result>>
    /\ UNCHANGED <<totalOnly, clsOnly, concOnly, teleOnly, gqlOnly>>

\* the generator resumes after the yield: it resolves the next endpoint and
\* either ends (StopIteration) or requests it and yields its body
PullResume ==
    /\ pc = "gen_suspended"
    /\ Len(requests) < MaxRequests
    /\ pulls' = pulls + 1
    /\ LET nxt == _get_next_endpoint(hostname, LinkUrl(response.links, "next"))
       IN /\ endpoint' = nxt
          /\ IF nxt = NoUrl
             THEN /\ pc' = "gen_done"
                  /\ UNCHANGED <<requests, response, yielded, result>>
             ELSE /\ requests' = Append(requests, nxt)
                  /\ \E outcome \in TransportOutcomes(nxt) :
                        IF outcome = "response"
                        THEN /\ response' = RawGet(rserver, nxt)
                             /\ yielded' = Append(yielded, RawGet(rserver, nxt).body)
                             /\ pc' = "gen_suspended"
                             /\ UNCHANGED result
                        ELSE /\ pc' = "gen_raised"
                             /\ result' = [kind |-> "raise", val |-> outcome]
                             /\ UNCHANGED <<response, yielded>>
    /\ UNCHANGED <<hostname, rserver, directive, attributes, items>>
    /\ UNCHANGED <<totalOnly, clsOnly, concOnly, teleOnly, gqlOnly>>

\* next() on the exhausted generator raises StopIteration again
PullDone ==
    /\ pc = "gen_done"
    /\ pulls <= MaxRequests
    /\ pulls' = pulls + 1
    /\ UNCHANGED <<hostname, rserver, directive, attributes, pc, endpoint, items,
                   response, requests, yielded, result>>
    /\ UNCHANGED <<totalOnly, clsOnly, concOnly, teleOnly, gqlOnly>>

NextRest ==
    \/ CallGetAll
    \/ GetAllIter
    \/ CallGetPage
    \/ CallGetSingle
    \/ PullFirst
    \/ PullResume
    \/ PullDone

SpecRest == InitRest /\ [][NextRest]_vars

\* ------------------------------------------------- REST paging: properties
\* A server is a chain of N linked pages: every response is truthy, page i
\* carries a next relation to page i+1 and the last page carries none.
IsChain(server) ==
    \A p \in DOMAIN server :
        /\ server[p].ok
        /\ IF p < Len(server)
           THEN /\ "next" \in DOMAIN server[p].links
                /\ server[p].links["next"] = PageUrl(HOSTNAME, p + 1)
           ELSE "next" \notin DOMAIN server[p].links

\* the items of pages 1..n in server order: a list payload contributes its
\* elements, a single-object payload contributes one item
RECURSIVE Flatten(_, _)
Flatten(server, n) ==
    IF n = 0 THEN <<>>
    ELSE Flatten(server, n - 1) \o
         (IF server[n].body.isList THEN server[n].body.list ELSE <<server[n].body.obj>>)

PageEndpoint(p) ==
    IF p = 1 THEN StartEndpoint ELSE <<"/items", "?", "page", "=">> \o ToDigits(p)

Min(a, b) == IF a < b THEN a ELSE b

\* C1: on a chain of N >= 1 linked pages, get(endpoint, _get='all') issues one
\* request per page and _get_all returns exactly the concatenation of the N
\* pages' items in server order (list payloads flattened, a single object
\* contributing one item); without an attribute filter get returns that list.
C1_FetchAllConcatenates ==
    (directive = "all" /\ pc = "returned" /\ IsChain(rserver)) =>
        /\ items = Flatten(rserver, Len(rserver))
        /\ requests = [p \in 1..Len(rserver) |-> PageEndpoint(p)]
        /\ result.kind = "return"
        /\ (attributes = <<>>) => (result.val = Flatten(rserver, Len(rserver)))

C1_Witness ==
    /\ directive = "all"
    /\ pc = "returned"
    /\ IsChain(rserver)
    /\ attributes = <<>>
    /\ Len(rserver) >= 3
    /\ \E p \in DOMAIN rserver : ~rserver[p].body.isList
    /\ \E p \in DOMAIN rserver : rserver[p].body.isList /\ Len(rserver[p].body.list) >= 2
    /\ Len(items) >= 4

\* C2: on a chain of N >= 1 linked pages, the generator of get(endpoint,
\* _get='page') yields one batch per pull, batch i being the decoded body of
\* page i, for the first N pulls, and is exhausted (StopIteration, nothing
\* yielded) from pull N+1 on.
C2_StreamPagesYieldsEachPage ==
    (directive = "page" /\ IsChain(rserver)) =>
        /\ Len(yielded) = Min(pulls, Len(rserver))
        /\ \A i \in DOMAIN yielded : yielded[i] = rserver[i].body
        /\ requests = [p \in 1..Len(yielded) |-> PageEndpoint(p)]
        /\ (pc = "gen_done") <=> (pulls > Len(rserver))

C2_Witness ==
    /\ directive = "page"
    /\ IsChain(rserver)
    /\ Len(rserver) >= 3
    /\ pc = "gen_done"
    /\ pulls = Len(rserver) + 1
    /\ Len(yielded) = Len(rserver)
    /\ \E i \in DOMAIN yielded : ~yielded[i].isList

\* C3: the lazy page sequence is demand-driven: it never has issued more GET
\* requests than the consumer has pulled elements from it.
C3_StreamPagesDemandDriven ==
    (directive = "page") => (Len(requests) <= pulls)

\* the consumer stopped after two pulls while page 2 links to a further page:
\* that page has not been requested
C3_Witness ==
    /\ directive = "page"
    /\ pc = "gen_suspended"
    /\ pulls = 2
    /\ Len(requests) = 2
    /\ "next" \in DOMAIN response.links

\* ------------------------------------------------------------------ total()
MaxLastPage == 3
MaxPerPage == 3
MaxCount == 3

\* the page numbers a last relation may carry: small ones and the 208 of
\* test__get_total_Should_ReturnExpected_When_Links
LastPages == (1..MaxLastPage) \cup {208}

\* the page sizes a last relation may carry
PerPages == (1..MaxPerPage) \cup {DEFAULT_PAGE_SIZE}

TotalBase == <<"https://", HOSTNAME, "/user/repos", "?">>

PageParam(n) == <<"page", "=">> \o ToDigits(n)

PerPageParam(n) == <<"per_", "page", "=">> \o ToDigits(n)

\* the forms of the url of a last relation
LastUrls ==
    {TotalBase \o PageParam(P) : P \in LastPages}
    \cup {TotalBase \o PerPageParam(S) \o <<"&">> \o PageParam(P) :
              S \in PerPages, P \in LastPages}
    \cup {TotalBase \o PageParam(P) \o <<"&">> \o PerPageParam(S) :
              S \in PerPages, P \in LastPages}
    \cup {TotalBase \o PerPageParam(S) : S \in PerPages}
    \cup {<<"https://", HOSTNAME, "/user/repos">>}

\* response.links of the first response: empty, next and last, or next alone
FirstLinks ==
    {NoLinks}
    \cup {[r \in {"next", "last"} |-> IF r = "last" THEN u ELSE TotalBase \o PageParam(2)] :
              u \in LastUrls}
    \cup {NextLink(TotalBase \o PageParam(2))}

TotalEndpoints ==
    { <<"/user/repos">>,
      <<"/user/repos", "?", "type=private">>,
      <<"/user/repos", "?", "per_", "page", "=", "5">>,
      <<"/user/repos", "?", "type=private", "&", "per_", "page", "=", "5">> }

\* index of the last occurrence of pat followed by a digit, 0 when there is none:
\* where the greedy ^.*pat(\d+) of re.match puts its group
LastMatch(url, pat) ==
    LET hits == {i \in 1..Len(url) :
                    /\ i + Len(pat) <= Len(url)
                    /\ SubSeq(url, i, i + Len(pat) - 1) = pat
                    /\ IsDigit(url[i + Len(pat)])}
    IN IF hits = {} THEN 0 ELSE CHOOSE i \in hits : \A j \in hits : j <= i

\* the longest run of digits of url that starts at position i: the group (\d+)
RECURSIVE DigitRun(_, _)
DigitRun(url, i) ==
    IF i <= Len(url) /\ IsDigit(url[i]) THEN <<url[i]>> \o DigitRun(url, i + 1) ELSE <<>>

\* get_page_from_url: re.match(r'^.*page=(?P<value>\d+).*$', url); None when
\* there is no match
get_page_from_url(url) ==
    LET i == LastMatch(url, <<"page", "=">>)
    IN IF i = 0 THEN [matched |-> FALSE, value |-> 0]
       ELSE [matched |-> TRUE, value |-> ToInt(DigitRun(url, i + 2))]

\* get_per_page_from_url: re.match(r'^.*per_page=(?P<value>\d+).*$', url),
\* DEFAULT_PAGE_SIZE when there is no match
get_per_page_from_url(url) ==
    LET i == LastMatch(url, <<"per_", "page", "=">>)
    IN IF i = 0 THEN DEFAULT_PAGE_SIZE ELSE ToInt(DigitRun(url, i + 3))

\* total, lines 136-139: the endpoint with page size forced to 1
WithPerPageOne(ep) ==
    IF Contains(ep, <<"?">>) THEN ep \o <<"&", "per_", "page", "=", "1">>
    ELSE ep \o <<"?", "per_", "page", "=", "1">>

\* a variant that only sees per_page as the first query parameter
HasPerPageFirstOnly(ep) == Contains(ep, <<"?", "per_", "page">>)

\* total, line 134: 'per_page' in endpoint
HasPerPage(ep) == Contains(ep, <<"per_", "page">>)

\* a variant that takes any links mapping, even an empty one, as paged
HasLinksAlways(links) == TRUE

\* total, line 141: if response.links
HasLinks(links) == DOMAIN links # {}

InitTotal ==
    /\ hostname = HOSTNAME
    /\ pc = "init"
    /\ targ \in TotalEndpoints
    /\ endpoint = targ
    /\ requests = <<>>
    /\ yielded = <<>>
    /\ pulls = 0
    /\ result = NoResult
    /\ tfirst \in [links : FirstLinks, count : 0..MaxCount]
    /\ tlast \in 0..MaxCount
    /\ RestIdle
    /\ ClsIdle
    /\ ConcIdle
    /\ TeleIdle
    /\ GqlIdle

\* total, lines 134-143 and 148-151: the per_page check, the first request and
\* the answer for a response without relation links
TotalCall ==
    /\ pc = "init"
    /\ IF HasPerPage(endpoint)
       THEN /\ pc' = "raised"
            /\ result' = [kind |-> "raise", val |-> "ValueError"]
            /\ UNCHANGED <<endpoint, requests>>
       ELSE /\ requests' = Append(requests, WithPerPageOne(endpoint))
            /\ IF HasLinks(tfirst.links)
               THEN IF "last" \in DOMAIN tfirst.links
                    THEN /\ endpoint' = get_endpoint_from_url(hostname, tfirst.links["last"])
                         /\ pc' = "total_last"
                         /\ UNCHANGED result
                    ELSE /\ pc' = "raised"
                         /\ result' = [kind |-> "raise", val |-> "KeyError"]
                         /\ UNCHANGED endpoint
               ELSE /\ pc' = "returned"
                    /\ result' = [kind |-> "return", val |-> tfirst.count]
                    /\ endpoint' = WithPerPageOne(endpoint)
    /\ UNCHANGED <<hostname, yielded, pulls>>
    /\ UNCHANGED <<restOnly, totalOnly, clsOnly, concOnly, teleOnly, gqlOnly>>

\* total, lines 144-147: the request for the last endpoint and the arithmetic;
\* a page number of None makes last_page - 1 a TypeError
TotalLast ==
    /\ pc = "total_last"
    /\ requests' = Append(requests, endpoint)
    /\ LET last_url  == tfirst.links["last"]
           per_page  == get_per_page_from_url(last_url)
           last_page == get_page_from_url(last_url)
       IN IF last_page.matched
          THEN /\ pc' = "returned"
               /\ result' = [kind |-> "return",
                             val |-> (per_page * (last_page.value - 1)) + tlast]
          ELSE /\ pc' = "raised"
               /\ result' = [kind |-> "raise", val |-> "TypeError"]
    /\ UNCHANGED <<hostname, endpoint, yielded, pulls>>
    /\ UNCHANGED <<restOnly, totalOnly, clsOnly, concOnly, teleOnly, gqlOnly>>

NextTotal == TotalCall \/ TotalLast

SpecTotal == InitTotal /\ [][NextTotal]_vars

\* --------------------------------------------- parsing a last url on its own
LastOnly(url) == [r \in {"last"} |-> url]

InitParse ==
    /\ hostname = HOSTNAME
    /\ pc = "init"
    /\ targ = <<>>
    /\ endpoint = <<>>
    /\ requests = <<>>
    /\ yielded = <<>>
    /\ pulls = 0
    /\ result = NoResult
    /\ tfirst \in [links : {LastOnly(u) : u \in LastUrls}, count : {0}]
    /\ tlast = 0
    /\ RestIdle
    /\ ClsIdle
    /\ ConcIdle
    /\ TeleIdle
    /\ GqlIdle

\* GitHubAPI.get_page_from_url(last_url)
ParsePage ==
    /\ pc = "init"
    /\ pc' = "page_parsed"
    /\ result' = [kind |-> "return", val |-> get_page_from_url(tfirst.links["last"])]
    /\ UNCHANGED <<hostname, endpoint, requests, yielded, pulls>>
    /\ UNCHANGED <<restOnly, totalOnly, clsOnly, concOnly, teleOnly, gqlOnly>>

\* GitHubAPI.get_per_page_from_url(last_url)
ParsePerPage ==
    /\ pc = "init"
    /\ pc' = "per_page_parsed"
    /\ result' = [kind |-> "return", val |-> get_per_page_from_url(tfirst.links["last"])]
    /\ UNCHANGED <<hostname, endpoint, requests, yielded, pulls>>
    /\ UNCHANGED <<restOnly, totalOnly, clsOnly, concOnly, teleOnly, gqlOnly>>

NextParse == ParsePage \/ ParsePerPage

SpecParse == InitParse /\ [][NextParse]_vars

\* ------------------------------------------------------ total(): properties
\* the value of the query parameter `name` of a url, read parameter by
\* parameter: a parameter starts after '?' or '&'
ParamAt(url, name) ==
    {i \in 2..Len(url) :
        /\ url[i - 1] \in {"?", "&"}
        /\ i + Len(name) <= Len(url)
        /\ SubSeq(url, i, i + Len(name) - 1) = name
        /\ IsDigit(url[i + Len(name)])}

HasParam(url, name) == ParamAt(url, name) # {}

ParamValue(url, name) ==
    ToInt(DigitRun(url, (CHOOSE i \in ParamAt(url, name) : TRUE) + Len(name)))

PageSizeOf(url) ==
    IF HasParam(url, <<"per_", "page", "=">>)
    THEN ParamValue(url, <<"per_", "page", "=">>)
    ELSE DEFAULT_PAGE_SIZE

\* C4: when the first response carries a last relation whose url has page
\* number P and page size S (30 without a per_page parameter) and the last
\* endpoint returns L items, total returns S * (P - 1) + L after exactly two
\* requests.
C4_TotalFromLastLink ==
    (/\ pc \in {"returned", "raised"}
     /\ ~HasPerPage(targ)
     /\ "last" \in DOMAIN tfirst.links
     /\ HasParam(tfirst.links["last"], <<"page", "=">>)) =>
        /\ result.kind = "return"
        /\ result.val =
             (PageSizeOf(tfirst.links["last"])
                * (ParamValue(tfirst.links["last"], <<"page", "=">>) - 1)) + tlast
        /\ Len(requests) = 2

\* C5: when the first response carries no relation links and holds K items
\* (a single-page collection of size K), total returns K and has issued
\* exactly one request.
C5_TotalSinglePage ==
    (/\ pc # "init"
     /\ ~HasPerPage(targ)
     /\ DOMAIN tfirst.links = {}) =>
        /\ pc = "returned"
        /\ result = [kind |-> "return", val |-> tfirst.count]
        /\ requests = <<WithPerPageOne(targ)>>

C5_Witness ==
    /\ pc = "returned"
    /\ DOMAIN tfirst.links = {}
    /\ tfirst.count = 3
    /\ result = [kind |-> "return", val |-> 3]
    /\ Len(requests) = 1

\* C6: total called with an endpoint that contains a per_page query parameter
\* raises ValueError and no request is ever issued.
C6_TotalRejectsPerPage ==
    HasParam(targ, <<"per_", "page", "=">>) =>
        /\ requests = <<>>
        /\ pc \in {"init", "raised"}
        /\ (pc = "raised") => (result = [kind |-> "raise", val |-> "ValueError"])

C6_Witness ==
    /\ HasParam(targ, <<"per_", "page", "=">>)
    /\ Contains(targ, <<"&", "per_", "page">>)
    /\ pc = "raised"
    /\ result = [kind |-> "raise", val |-> "ValueError"]
    /\ requests = <<>>

\* ------------------------------------------------------- retry classifiers
RATE_LIMIT_STATUS == 403

StatusCodes == {400, 401, 403, 404, 405, 409, 410, 422, 429, 500, 502, 503, 504}

\* response.reason of an HTTP error; the two 403 reasons are those of
\* test__retry_ratelimit_error_Should_Return_True_When_Match and
\* test__retry_ratelimit_error_Should_Return_False_When_403NotRateLimit
Reasons == {"API Rate Limit Exceeded", "Forbidden", "Not Found", "Server Error"}

\* the reasons by which a response indicates rate limiting
RateLimitReasons == {"API Rate Limit Exceeded"}

HttpErrors ==
    [type : {"HTTPError"}, status : StatusCodes, reason : Reasons, message : {""}]

OtherErrors ==
    [type : {"ChunkedEncodingError", "Exception", "GraphqlRateLimitError",
             "GraphqlError", "TypeError", "KeyError"},
     status : {0}, reason : {""}, message : {""}]

\* retry_ratelimit_error, lines 230-235
retry_ratelimit_error(exception) ==
    IF exception.type = "HTTPError"
    THEN IF exception.status = RATE_LIMIT_STATUS THEN TRUE ELSE FALSE
    ELSE FALSE

\* check_graphqlratelimiterror, lines 297-301
check_graphqlratelimiterror(exception) ==
    IF exception.type \in {"GraphqlRateLimitError", "TypeError"} THEN TRUE ELSE FALSE

InitClassify ==
    /\ hostname = HOSTNAME
    /\ pc = "init"
    /\ endpoint = <<>>
    /\ requests = <<>>
    /\ yielded = <<>>
    /\ pulls = 0
    /\ result = NoResult
    /\ exc \in HttpErrors \cup OtherErrors
    /\ failures = 0
    /\ ConcIdle
    /\ TeleIdle
    /\ RestIdle
    /\ TotalIdle
    /\ GqlIdle

\* the REST retry wrapper asks retry_ratelimit_error about a failure
ClassifyRest ==
    /\ pc = "init"
    /\ pc' = "classified_rest"
    /\ result' = [kind |-> "return", val |-> retry_ratelimit_error(exc)]
    /\ UNCHANGED <<hostname, endpoint, requests, yielded, pulls>>
    /\ UNCHANGED <<restOnly, totalOnly, clsOnly, concOnly, teleOnly, gqlOnly>>

\* the graphql retry wrapper asks check_graphqlratelimiterror about a failure
ClassifyGraphql ==
    /\ pc = "init"
    /\ pc' = "classified_graphql"
    /\ result' = [kind |-> "return", val |-> check_graphqlratelimiterror(exc)]
    /\ UNCHANGED <<hostname, endpoint, requests, yielded, pulls>>
    /\ UNCHANGED <<restOnly, totalOnly, clsOnly, concOnly, teleOnly, gqlOnly>>

NextClassify == ClassifyRest \/ ClassifyGraphql

SpecClassify == InitClassify /\ [][NextClassify]_vars

\* C7: retry_ratelimit_error answers True exactly when the failure is an HTTP
\* error with status 403 whose response indicates rate limiting; it answers
\* False for a 403 'Forbidden', for any other status and for any failure that
\* is not an HTTP error.
C7_RetryOnlyRateLimit403 ==
    (pc = "classified_rest") =>
        (result.val <=> (/\ exc.type = "HTTPError"
                         /\ exc.status = 403
                         /\ exc.reason \in RateLimitReasons))

\* ------------------------------------------------- retries of a REST request
MaxFailures == 2

\* retry_ratelimit_error's docstring: the policy the REST client attaches to
\* the classifier
REST_WAIT_FIXED == 60000
REST_STOP_MAX_ATTEMPT_NUMBER == 60

\* client.retries: the classifiers the class defines, each with its policy
\* (test__get_retries_Should_ReturnExpected_When_Called)
Retries ==
    << [retry_on_exception |-> "retry_ratelimit_error",
        stop_max_attempt_number |-> REST_STOP_MAX_ATTEMPT_NUMBER,
        wait_fixed |-> REST_WAIT_FIXED] >>

\* the classifier a retry entry names, applied to an exception
RetryOnException(name, exception) ==
    IF name = "retry_ratelimit_error" THEN retry_ratelimit_error(exception) ELSE FALSE

\* numbers of failing attempts: small ones and those around the attempt caps
FailureCounts ==
    (0..MaxFailures)
    \cup {REST_STOP_MAX_ATTEMPT_NUMBER - 1, REST_STOP_MAX_ATTEMPT_NUMBER,
          REST_STOP_MAX_ATTEMPT_NUMBER + 1, 119, 120, 121}

InitRestRetry ==
    /\ hostname = HOSTNAME
    /\ pc = "init"
    /\ endpoint = StartEndpoint
    /\ requests = <<>>
    /\ yielded = <<>>
    /\ pulls = 0
    /\ result = NoResult
    /\ exc \in HttpErrors \cup OtherErrors
    /\ failures \in FailureCounts
    /\ ConcIdle
    /\ TeleIdle
    /\ gquery = <<>>
    /\ gorig = <<>>
    /\ gvars = <<>>
    /\ gpage = FALSE
    /\ gkeys = <<>>
    /\ gconn = 0
    /\ gscript = NoScript
    /\ attempts = 1
    /\ clock = 0
    /\ posts = <<>>
    /\ gresp = NoBody
    /\ RestIdle
    /\ TotalIdle

\* the entry of client.retries that governs an exception: the first whose
\* classifier accepts it, 0 when none does
GoverningRetry(exception) ==
    LET hits == {i \in DOMAIN Retries :
                    RetryOnException(Retries[i].retry_on_exception, exception)}
    IN IF hits = {} THEN 0 ELSE CHOOSE i \in hits : \A j \in hits : i <= j

\* one attempt of a REST request under the retries of the client: the
\* transport raises exc on the first `failures` attempts; a failure accepted by
\* a classifier is retried after its fixed wait while the attempt number is
\* below its cap, any other failure is raised to the caller
RestRequest ==
    /\ pc \in {"init", "rest_retry"}
    /\ requests' = Append(requests, endpoint)
    /\ IF Len(requests) >= failures
       THEN /\ pc' = "returned"
            /\ result' = [kind |-> "return", val |-> "response"]
            /\ UNCHANGED <<attempts, clock>>
       ELSE LET r == GoverningRetry(exc)
            IN IF r # 0 /\ attempts < Retries[r].stop_max_attempt_number
               THEN /\ pc' = "rest_retry"
                    /\ attempts' = attempts + 1
                    /\ clock' = clock + Retries[r].wait_fixed
                    /\ UNCHANGED result
               ELSE /\ pc' = "raised"
                    /\ result' = [kind |-> "raise", val |-> exc]
                    /\ UNCHANGED <<attempts, clock>>
    /\ UNCHANGED <<hostname, endpoint, yielded, pulls>>
    /\ UNCHANGED <<gquery, gorig, gvars, gpage, gkeys, gconn, gscript, posts, gresp>>
    /\ UNCHANGED <<restOnly, totalOnly, clsOnly, concOnly, teleOnly>>

NextRestRetry == RestRequest

SpecRestRetry == InitRestRetry /\ [][NextRestRetry]_vars

\* C14: a ChunkedEncodingError raised by a REST request is retried after a
\* fixed wait of 10000 ms, up to 120 attempts: the request is issued again
\* until it succeeds, and the error reaches the caller only after the 120th
\* attempt.
C14_ChunkedEncodingRetried ==
    (exc.type = "ChunkedEncodingError") =>
        /\ clock = 10000 * (attempts - 1)
        /\ (pc \in {"returned", "raised"}) =>
              Len(requests) = (IF failures < 120 THEN failures + 1 ELSE 120)
        /\ (pc = "raised") => (failures >= 120)

\* ---------------------------------------------------------------- graphql()
MaxGqlPages == 3
MaxLimited == 2

\* @retry(..., wait_fixed=60000, stop_max_attempt_number=60)
WAIT_FIXED == 60000
STOP_MAX_ATTEMPT_NUMBER == 60

\* the two fragments clear_cursor removes, as tokens
AfterCursor == <<"after:", " ", "$cursor">>
CursorDecl == <<"$cursor", ":", " ", "String!">>

\* query texts as the caller writes them: newlines and indentation included
Queries ==
    { <<"query", "(", "$q", ",", " ">> \o CursorDecl \o <<")", "{", "\n", " ", " ",
        "search", "(", "first:", " ", "$page_size", ",", " ">> \o AfterCursor
        \o <<")", "\n", "}">>,
      <<"\n", " ", " ", "{", "viewer", "}", "\n">> }

\* one replace pass with a replacement: s.replace(old, new) for a one-token old
ReplaceToken(s, old, new) == [i \in DOMAIN s |-> IF s[i] = old THEN new ELSE s[i]]

RECURSIVE LStrip(_)
LStrip(s) == IF s # <<>> /\ Head(s) \in {" ", "\n"} THEN LStrip(Tail(s)) ELSE s

RECURSIVE RStrip(_)
RStrip(s) ==
    IF s # <<>> /\ s[Len(s)] \in {" ", "\n"} THEN RStrip(SubSeq(s, 1, Len(s) - 1)) ELSE s

\* sanitize_query: query.replace('\n', ' ').replace('  ', '').strip()
sanitize_query(query) ==
    LStrip(RStrip(Remove(ReplaceToken(query, "\n", " "), <<" ", " ">>)))

\* a variant that forgets the declaration fragment
clear_cursor_after_only(query, noCursor) ==
    IF noCursor THEN Remove(query, AfterCursor) ELSE query

\* clear_cursor(query, cursor), with noCursor standing for `not cursor`
clear_cursor(query, noCursor) ==
    IF noCursor THEN Remove(Remove(query, AfterCursor), CursorDecl) ELSE query

\* `not variables.get('cursor')` / `not variables['cursor']`
NoCursorIn(variables) == "cursor" \notin DOMAIN variables \/ variables["cursor"] = <<>>

\* variables[key] = value
SetKey(d, key, value) == [k \in DOMAIN d \cup {key} |-> IF k = key THEN value ELSE d[k]]

\* ---- server side
Cursor(k) == <<"c">> \o ToDigits(k)

\* the page of the connection a cursor asks for: the first one without cursor
CursorPage(variables) ==
    IF NoCursorIn(variables) THEN 1
    ELSE IF Head(variables["cursor"]) = "c" THEN ToInt(Tail(variables["cursor"])) + 1
    ELSE 0

Edges(k) == <<[node |-> (10 * k) + 1], [node |-> (10 * k) + 2]>>

\* the body the server sends for page k of a connection of n pages
DataBody(n, k) ==
    [isNone |-> FALSE,
     json |-> [data |-> [search |-> [edges |-> Edges(k),
                                     pageInfo |-> [hasNextPage |-> k < n,
                                                   endCursor |-> Cursor(k)]]]]]

ErrRateLimited == [type |-> "RATE_LIMITED", message |-> "API rate limit exceeded"]
ErrNotFound == [type |-> "NOT_FOUND", message |-> "Could not resolve"]
ErrUntyped == [message |-> "Parse error"]
ErrNoMessage == [type |-> "FORBIDDEN"]

ErrorBody(errs) == [isNone |-> FALSE, json |-> [errors |-> errs]]

\* bodies with a RATE_LIMITED entry, first or not
RateLimitedBodies ==
    {ErrorBody(<<ErrRateLimited>>), ErrorBody(<<ErrNotFound, ErrRateLimited>>)}

\* bodies whose errors are all of another type and carry a message
OtherErrorBodies == {ErrorBody(<<ErrNotFound>>), ErrorBody(<<ErrUntyped, ErrNotFound>>)}

\* bodies outside the GraphQL response format: an entry without message, an
\* empty errors list, an empty HTTP body (post returns None)
MalformedBodies == {ErrorBody(<<ErrNoMessage>>), ErrorBody(<<>>), NoBody}

\* the answer to POST number n: the POSTs numbered from `from` on, `limited` of
\* them, get the script's failure body; the others the page the cursor asks for
\* or, after the failures, the script's final body
GqlRespond(script, n, npages, variables) ==
    IF n >= script.from /\ n < script.from + script.limited THEN script.limitedWith
    ELSE IF n >= script.from + script.limited /\ ~script.finalIsData THEN script.final
    ELSE DataBody(npages, CursorPage(variables))

\* ---- client side
GqlExc(type, message) == [type |-> type, status |-> 0, reason |-> "", message |-> message]

\* error.get(key, '')
GetOr(d, key) == IF key \in DOMAIN d THEN d[key] ELSE ""

\* a variant that looks at the type of the first entry only
raise_if_error_first_only(resp) ==
    IF resp.isNone THEN GqlExc("TypeError", "")
    ELSE IF "errors" \notin DOMAIN resp.json THEN NoExc
    ELSE LET errs == resp.json["errors"]
         IN IF errs = <<>> THEN GqlExc("IndexError", "")
            ELSE IF GetOr(errs[1], "type") = "RATE_LIMITED"
                 THEN GqlExc("GraphqlRateLimitError", GetOr(errs[1], "message"))
            ELSE IF "message" \notin DOMAIN errs[1] THEN GqlExc("KeyError", "")
            ELSE GqlExc("GraphqlError", errs[1]["message"])

\* raise_if_error(response): the exception it raises, NoExc when it returns
raise_if_error(resp) ==
    IF resp.isNone THEN GqlExc("TypeError", "")
    ELSE IF "errors" \notin DOMAIN resp.json THEN NoExc
    ELSE LET errs == resp.json["errors"]
             rl   == {i \in DOMAIN errs : GetOr(errs[i], "type") = "RATE_LIMITED"}
         IN IF rl # {}
            THEN GqlExc("GraphqlRateLimitError",
                        GetOr(errs[CHOOSE i \in rl : \A j \in rl : i <= j], "message"))
            ELSE IF errs = <<>> THEN GqlExc("IndexError", "")
            ELSE IF "message" \notin DOMAIN errs[1] THEN GqlExc("KeyError", "")
            ELSE GqlExc("GraphqlError", errs[1]["message"])

\* the part of a dotted path before its first '.', and the part after it
FirstDot(keys) == CHOOSE i \in DOMAIN keys : keys[i] = "." /\ \A j \in 1..(i - 1) : keys[j] # "."

\* a dictionary key as a string: paths are tokenised one key per token
KeyOf(seq) == IF Len(seq) = 1 THEN seq[1] ELSE "<no such key>"

\* a variant that answers a missing key with an empty value
RECURSIVE get_value_lenient(_, _)
get_value_lenient(data, keys) ==
    IF "." \in Range(keys)
    THEN LET key  == KeyOf(SubSeq(keys, 1, FirstDot(keys) - 1))
             rest == SubSeq(keys, FirstDot(keys) + 1, Len(keys))
         IN IF key \in DOMAIN data THEN get_value_lenient(data[key], rest)
            ELSE [err |-> "none", val |-> <<>>]
    ELSE IF KeyOf(keys) \in DOMAIN data
         THEN [err |-> "none", val |-> data[KeyOf(keys)]]
         ELSE [err |-> "none", val |-> <<>>]

\* get_value(data, keys): [err, val], err "KeyError" when a key is missing
RECURSIVE get_value(_, _)
get_value(data, keys) ==
    IF "." \in Range(keys)
    THEN LET key  == KeyOf(SubSeq(keys, 1, FirstDot(keys) - 1))
             rest == SubSeq(keys, FirstDot(keys) + 1, Len(keys))
         IN IF key \in DOMAIN data THEN get_value(data[key], rest)
            ELSE [err |-> "KeyError", val |-> <<>>]
    ELSE IF KeyOf(keys) \in DOMAIN data
         THEN [err |-> "none", val |-> data[KeyOf(keys)]]
         ELSE [err |-> "KeyError", val |-> <<>>]

\* the JSON body of self.post('/graphql', json=...)
PostBody(query, variables) == [query |-> query, variables |-> variables]

GoodKeys == <<"data", ".", "search">>

\* result paths: the connection, and paths whose last, middle or first key the
\* response lacks
KeyPaths ==
    {GoodKeys, <<"data", ".", "nope">>, <<"data">>, <<"nope", ".", "search">>}

LimitedCounts ==
    (0..MaxLimited)
    \cup {STOP_MAX_ATTEMPT_NUMBER - 1, STOP_MAX_ATTEMPT_NUMBER, STOP_MAX_ATTEMPT_NUMBER + 1}

\* scripts of a non-paged call: some failures first, then data or another error
OnceScripts ==
    [from : {1}, limited : LimitedCounts,
     limitedWith : RateLimitedBodies \cup {NoBody},
     finalIsData : {TRUE}, final : {NoBody}]
    \cup
    [from : {1}, limited : LimitedCounts,
     limitedWith : RateLimitedBodies \cup {NoBody},
     finalIsData : {FALSE}, final : OtherErrorBodies \cup {ErrorBody(<<ErrNoMessage>>),
                                                         ErrorBody(<<>>)}]

\* scripts of a paged call: at most one POST of the traversal fails
PagedScripts ==
    [from : 1..MaxGqlPages, limited : {0, 1},
     limitedWith : RateLimitedBodies \cup OtherErrorBodies \cup MalformedBodies,
     finalIsData : {TRUE}, final : {NoBody}]

GqlVariables == { [q |-> <<"x">>], [q |-> <<"x">>, cursor |-> Cursor(1)] }

InitGraphql ==
    /\ hostname = HOSTNAME
    /\ pc = "init"
    /\ endpoint = <<"/graphql">>
    /\ requests = <<>>
    /\ yielded = <<>>
    /\ pulls = 0
    /\ result = NoResult
    /\ gquery \in Queries
    /\ gorig \in GqlVariables
    /\ gvars = gorig
    /\ gpage \in BOOLEAN
    /\ gkeys \in KeyPaths
    /\ gconn \in 1..MaxGqlPages
    /\ gscript \in (IF gpage THEN PagedScripts ELSE OnceScripts)
    /\ attempts = 1
    /\ clock = 0
    /\ posts = <<>>
    /\ gresp = NoBody
    /\ RestIdle
    /\ TotalIdle
    /\ ClsIdle
    /\ ConcIdle
    /\ TeleIdle

\* a variant whose cap is off by one
RetryDecisionOneMore(exception, attempt) ==
    IF check_graphqlratelimiterror(exception)
    THEN IF attempt > STOP_MAX_ATTEMPT_NUMBER THEN "raise" ELSE "retry"
    ELSE "raise"

\* the decorator of line 303 on an attempt that raised: retry while the
\* classifier accepts the exception and the attempt number is below the cap,
\* otherwise re-raise the exception itself
RetryDecision(exception, attempt) ==
    IF check_graphqlratelimiterror(exception)
    THEN IF attempt >= STOP_MAX_ATTEMPT_NUMBER THEN "raise" ELSE "retry"
    ELSE "raise"

\* graphql(query, variables): one attempt of the non-paged call (lines 307,
\* 311-314) and what the retry decorator does with its outcome
GraphqlOnce ==
    /\ pc \in {"init", "gql_retry"}
    /\ ~gpage
    /\ LET query   == sanitize_query(gquery)
           updated == clear_cursor(query, NoCursorIn(gvars))
           resp    == GqlRespond(gscript, Len(posts) + 1, gconn, gvars)
           e       == raise_if_error(resp)
       IN /\ posts' = Append(posts, PostBody(updated, gvars))
          /\ IF e = NoExc
             THEN /\ pc' = "returned"
                  /\ result' = [kind |-> "return", val |-> resp]
                  /\ UNCHANGED <<attempts, clock>>
             ELSE IF RetryDecision(e, attempts) = "retry"
             THEN /\ pc' = "gql_retry"
                  /\ attempts' = attempts + 1
                  /\ clock' = clock + WAIT_FIXED
                  /\ UNCHANGED result
             ELSE /\ pc' = "raised"
                  /\ result' = [kind |-> "raise", val |-> e]
                  /\ UNCHANGED <<attempts, clock>>
    /\ UNCHANGED <<hostname, endpoint, requests, yielded, pulls>>
    /\ UNCHANGED <<gquery, gorig, gvars, gpage, gkeys, gconn, gscript, gresp>>
    /\ UNCHANGED <<restOnly, totalOnly, clsOnly, concOnly, teleOnly>>

\* graphql(query, variables, page=True, keys=...): lines 307-309 and 314 build
\* the generator of _get_graphql_page and return it; nothing of its body has
\* run, so the decorator sees a normal return
GraphqlPaged ==
    /\ pc \in {"init", "gql_retry"}
    /\ gpage
    /\ pc' = "gql_gen_created"
    /\ result' = [kind |-> "return", val |-> "generator"]
    /\ UNCHANGED <<hostname, endpoint, requests, yielded, pulls>>
    /\ UNCHANGED gqlOnly
    /\ UNCHANGED <<restOnly, totalOnly, clsOnly, concOnly, teleOnly>>

\* _get_graphql_page, lines 281-284, with `variables` the mapping after the
\* assignments that precede them: POST, raise_if_error, yield the edges.  An
\* exception leaves the generator finished and surfaces from next().
GenStep(variables) ==
    LET updated == clear_cursor(sanitize_query(gquery), NoCursorIn(variables))
        resp    == GqlRespond(gscript, Len(posts) + 1, gconn, variables)
        e       == raise_if_error(resp)
        edges   == get_value(resp.json, gkeys \o <<".", "edges">>)
    IN /\ gvars' = variables
       /\ posts' = Append(posts, PostBody(updated, variables))
       /\ IF e # NoExc
          THEN /\ pc' = "gql_gen_raised"
               /\ result' = [kind |-> "raise", val |-> e]
               /\ UNCHANGED <<yielded, gresp>>
          ELSE IF edges.err # "none"
          THEN /\ pc' = "gql_gen_raised"
               /\ result' = [kind |-> "raise", val |-> GqlExc(edges.err, "")]
               /\ UNCHANGED <<yielded, gresp>>
          ELSE /\ pc' = "gql_gen_suspended"
               /\ yielded' = Append(yielded, edges.val)
               /\ gresp' = resp
               /\ UNCHANGED result

\* a variant that starts the traversal from the cursor the caller passed
GqlPullFirstKeepCursor ==
    /\ pc = "gql_gen_created"
    /\ pulls' = pulls + 1
    /\ GenStep(SetKey(gvars, "page_size", DEFAULT_GRAPHQL_PAGE_SIZE))
    /\ UNCHANGED <<hostname, endpoint, requests>>
    /\ UNCHANGED <<gquery, gorig, gpage, gkeys, gconn, gscript, attempts, clock>>
    /\ UNCHANGED <<restOnly, totalOnly, clsOnly, concOnly, teleOnly>>

\* first next(): lines 278-279 set page_size and an empty cursor in the
\* caller's mapping, then the loop runs to the first yield
GqlPullFirst ==
    /\ pc = "gql_gen_created"
    /\ pulls' = pulls + 1
    /\ GenStep(SetKey(SetKey(gvars, "page_size", DEFAULT_GRAPHQL_PAGE_SIZE), "cursor", <<>>))
    /\ UNCHANGED <<hostname, endpoint, requests>>
    /\ UNCHANGED <<gquery, gorig, gpage, gkeys, gconn, gscript, attempts, clock>>
    /\ UNCHANGED <<restOnly, totalOnly, clsOnly, concOnly, teleOnly>>

\* a later next(): lines 286-291 read pageInfo, end the generator when there
\* is no next page, otherwise adopt endCursor and run the loop to the next yield
GqlPullResume ==
    /\ pc = "gql_gen_suspended"
    /\ pulls' = pulls + 1
    /\ LET page_info == get_value(gresp.json, gkeys \o <<".", "pageInfo">>)
       IN IF page_info.err # "none"
          THEN /\ pc' = "gql_gen_raised"
               /\ result' = [kind |-> "raise", val |-> GqlExc(page_info.err, "")]
               /\ UNCHANGED <<yielded, gresp, gvars, posts>>
          ELSE IF ~page_info.val["hasNextPage"]
          THEN /\ pc' = "gql_gen_done"
               /\ UNCHANGED <<yielded, gresp, gvars, posts, result>>
          ELSE GenStep(SetKey(gvars, "cursor", page_info.val["endCursor"]))
    /\ UNCHANGED <<hostname, endpoint, requests>>
    /\ UNCHANGED <<gquery, gorig, gpage, gkeys, gconn, gscript, attempts, clock>>
    /\ UNCHANGED <<restOnly, totalOnly, clsOnly, concOnly, teleOnly>>

NextGraphql ==
    \/ GraphqlOnce
    \/ GraphqlPaged
    \/ GqlPullFirst
    \/ GqlPullResume

SpecGraphql == InitGraphql /\ [][NextGraphql]_vars

\* ----------------------------------------- two paged traversals in threads
\* Two threads each consume the generator of graphql(query, variables,
\* page=True, keys=...).  A thread can be preempted between any two
\* statements of _get_graphql_page; each action below is a run of statements
\* of one thread.
Traversals == 1..2

\* the mapping object traversal t works on
MapOf(t) == IF cshared THEN cmaps[1] ELSE cmaps[t]

\* the mappings after traversal t stored m into its mapping object
SetMap(t, m) == [cmaps EXCEPT ![IF cshared THEN 1 ELSE t] = m]

InitConcurrent ==
    /\ hostname = HOSTNAME
    /\ pc = "init"
    /\ endpoint = <<"/graphql">>
    /\ requests = <<>>
    /\ yielded = <<>>
    /\ pulls = 0
    /\ result = NoResult
    /\ gquery \in Queries
    /\ gorig \in GqlVariables
    /\ gvars = gorig
    /\ gpage = TRUE
    /\ gkeys = GoodKeys
    /\ gconn \in 1..MaxGqlPages
    /\ gscript = NoScript
    /\ attempts = 1
    /\ clock = 0
    /\ posts = <<>>
    /\ gresp = NoBody
    /\ cshared \in BOOLEAN
    /\ cmaps = [t \in Traversals |-> gorig]
    /\ cpc = [t \in Traversals |-> "created"]
    /\ cquery = [t \in Traversals |-> <<>>]
    /\ cposts = [t \in Traversals |-> <<>>]
    /\ cresp = [t \in Traversals |-> NoBody]
    /\ RestIdle
    /\ TotalIdle
    /\ ClsIdle
    /\ TeleIdle

\* lines 278-279: page_size and an empty cursor stored into the mapping
ConcStart(t) ==
    /\ cpc[t] = "created"
    /\ cmaps' = SetMap(t, SetKey(SetKey(MapOf(t), "page_size", DEFAULT_GRAPHQL_PAGE_SIZE),
                                 "cursor", <<>>))
    /\ cpc' = [cpc EXCEPT ![t] = "clear"]
    /\ UNCHANGED <<cshared, cquery, cposts, cresp>>

\* line 281: updated_query computed from the cursor the mapping holds now
ConcClear(t) ==
    /\ cpc[t] = "clear"
    /\ cquery' = [cquery EXCEPT ![t] =
                     clear_cursor(sanitize_query(gquery), NoCursorIn(MapOf(t)))]
    /\ cpc' = [cpc EXCEPT ![t] = "post"]
    /\ UNCHANGED <<cshared, cmaps, cposts, cresp>>

\* lines 282-284: the POST carries the mapping as it is now; raise_if_error
\* and the edges lookup pass on the server's answer and the generator yields
ConcPost(t) ==
    /\ cpc[t] = "post"
    /\ LET resp  == GqlRespond(gscript, Len(cposts[t]) + 1, gconn, MapOf(t))
           edges == get_value(resp.json, gkeys \o <<".", "edges">>)
       IN /\ cposts' = [cposts EXCEPT ![t] = Append(@, PostBody(cquery[t], MapOf(t)))]
          /\ IF raise_if_error(resp) = NoExc /\ edges.err = "none"
             THEN /\ cresp' = [cresp EXCEPT ![t] = resp]
                  /\ cpc' = [cpc EXCEPT ![t] = "suspended"]
             ELSE /\ cpc' = [cpc EXCEPT ![t] = "raised"]
                  /\ UNCHANGED cresp
    /\ UNCHANGED <<cshared, cmaps, cquery>>

\* lines 286-291: pageInfo of the traversal's own response ends the generator
\* or stores its endCursor into the mapping
ConcAdvance(t) ==
    /\ cpc[t] = "suspended"
    /\ LET page_info == get_value(cresp[t].json, gkeys \o <<".", "pageInfo">>)
       IN IF page_info.err # "none"
          THEN /\ cpc' = [cpc EXCEPT ![t] = "raised"]
               /\ UNCHANGED cmaps
          ELSE IF ~page_info.val["hasNextPage"]
          THEN /\ cpc' = [cpc EXCEPT ![t] = "done"]
               /\ UNCHANGED cmaps
          ELSE /\ cmaps' = SetMap(t, SetKey(MapOf(t), "cursor", page_info.val["endCursor"]))
               /\ cpc' = [cpc EXCEPT ![t] = "clear"]
    /\ UNCHANGED <<cshared, cquery, cposts, cresp>>

NextConcurrent ==
    \E t \in Traversals :
        /\ \/ ConcStart(t)
           \/ ConcClear(t)
           \/ ConcPost(t)
           \/ ConcAdvance(t)
        /\ UNCHANGED <<sharedVars, restOnly, totalOnly, clsOnly, gqlOnly, teleOnly>>

SpecConcurrent == InitConcurrent /\ [][NextConcurrent]_vars

\* the endCursor the server reported in its answer to request k of traversal t
ReportedCursor(t, k) ==
    DataBody(gconn, CursorPage(cposts[t][k].variables)).json["data"]["search"]["pageInfo"]["endCursor"]

\* C25: of two interleaved paged traversals, also when the caller passed one
\* mapping to both, every request of a traversal carries the cursor its own
\* previous response reported, and its first request the empty cursor.
C25_CursorStatePerCall ==
    \A t \in DOMAIN cposts :
        \A k \in DOMAIN cposts[t] :
            /\ "cursor" \in DOMAIN cposts[t][k].variables
            /\ cposts[t][k].variables["cursor"] =
                  (IF k = 1 THEN <<>> ELSE ReportedCursor(t, k - 1))

\* ------------------------------------------------ get_response and telemetry
\* get_response is called for two responses that differ only in their
\* rate-limit headers; rout[i] and rlogs[i] are the outcome and the
\* logger.debug calls of call i.
RateLimitNames == {"X-RateLimit-Reset", "X-RateLimit-Remaining", "X-RateLimit-Limit"}

\* header texts: empty, a number, not a number
HeaderTexts == {<<>>, <<"9", "0">>, <<"s", "o", "o", "n">>}

\* response.headers: every choice of present rate-limit headers and texts
HeaderSets == UNION {[D -> HeaderTexts] : D \in SUBSET RateLimitNames}

\* datetime.now(), in seconds
Nows == {30, 120}

Calls == 1..2

\* headers.get(name): the text, or None
HeadersGet(headers, name) ==
    IF name \in DOMAIN headers THEN [isNone |-> FALSE, text |-> headers[name]]
    ELSE [isNone |-> TRUE, text |-> <<>>]

\* int(text) succeeds
IsIntText(text) == text # <<>> /\ \A i \in DOMAIN text : IsDigit(text[i])

\* str(seconds / 60).split('.')[0]
MinutesText(seconds) ==
    IF seconds >= 0 THEN ToDigits(seconds \div SECONDS_PER_MINUTE)
    ELSE <<"-">> \o ToDigits((0 - seconds) \div SECONDS_PER_MINUTE)

get_ratelimit(headers, now) ==
    LET reset == HeadersGet(headers, "X-RateLimit-Reset")
    IN IF reset.isNone \/ reset.text = <<>>
       THEN [err |-> "none", val |-> <<>>]
       ELSE IF ~IsIntText(reset.text)
       THEN [err |-> "ValueError", val |-> <<>>]
       ELSE [err |-> "none",
             val |-> [remaining |-> HeadersGet(headers, "X-RateLimit-Remaining"),
                      limit |-> HeadersGet(headers, "X-RateLimit-Limit"),
                      minutes |-> MinutesText(ToInt(reset.text) - now)]]

\* the text an f-string puts for a value
FormatValue(v) == IF v.isNone THEN <<"None">> ELSE v.text

\* the message handed to logger.debug
log_ratelimit(ratelimit) ==
    FormatValue(ratelimit["remaining"]) \o <<"/">> \o FormatValue(ratelimit["limit"])
        \o <<" resets in ">> \o ratelimit["minutes"] \o <<" min">>

\* RESTclient.get_response: the decoded body, or HTTPError for a response
\* that is not ok
SuperGetResponse(resp) ==
    IF resp.ok THEN [kind |-> "return", val |-> resp.body]
    ELSE [kind |-> "raise", val |-> "HTTPError"]

InitTelemetry ==
    /\ hostname = HOSTNAME
    /\ pc = "init"
    /\ endpoint = StartEndpoint
    /\ requests = <<>>
    /\ yielded = <<>>
    /\ pulls = 0
    /\ result = NoResult
    /\ rresp \in {[ok |-> TRUE, body |-> Body(1, 1), links |-> NoLinks], NotFound}
    /\ rheaders \in [Calls -> HeaderSets]
    /\ rnow \in Nows
    /\ rout = [i \in Calls |-> NoResult]
    /\ rlogs = [i \in Calls |-> <<>>]
    /\ RestIdle
    /\ TotalIdle
    /\ ClsIdle
    /\ GqlIdle
    /\ ConcIdle

\* get_response(response) for call i's headers
GetResponse(i) ==
    /\ rout[i].kind = "none"
    /\ LET ratelimit == get_ratelimit(rheaders[i], rnow)
       IN IF ratelimit.err # "none"
          THEN /\ rout' = [rout EXCEPT ![i] = [kind |-> "raise", val |-> ratelimit.err]]
               /\ UNCHANGED rlogs
          ELSE /\ rlogs' = [rlogs EXCEPT ![i] =
                              IF ratelimit.val # <<>>
                              THEN Append(@, log_ratelimit(ratelimit.val))
                              ELSE @]
               /\ rout' = [rout EXCEPT ![i] = SuperGetResponse(rresp)]
    /\ UNCHANGED <<rresp, rheaders, rnow>>
    /\ UNCHANGED <<sharedVars, restOnly, totalOnly, clsOnly, gqlOnly, concOnly>>

NextTelemetry == \E i \in Calls : GetResponse(i)

SpecTelemetry == InitTelemetry /\ [][NextTelemetry]_vars

\* C26: for two responses that differ only in their rate-limit headers,
\* get_response raises for neither or for both and returns the same value,
\* and it logs nothing when X-RateLimit-Reset is absent.
C26_TelemetryNoControlFlow ==
    /\ (\A i \in DOMAIN rout : rout[i].kind # "none") =>
           \A i, j \in DOMAIN rout :
               /\ rout[i].kind = rout[j].kind
               /\ (rout[i].kind = "return" => rout[i].val = rout[j].val)
    /\ \A i \in DOMAIN rout :
           (rout[i].kind # "none" /\ "X-RateLimit-Reset" \notin DOMAIN rheaders[i])
               => rlogs[i] = <<>>

\* ------------------------------------- sanitize_query and clear_cursor alone
MaxWords == 3
MaxIndent == 3
MaxSegments == 3

Words == <<"a", "b", "c", "d", "e">>

Spaces(k) == [i \in 1..k |-> " "]

\* the first n words, word i + 1 on a new line indented by indents[i] spaces
RECURSIVE IndentedQuery(_, _)
IndentedQuery(n, indents) ==
    IF n = 1 THEN <<Words[1]>>
    ELSE IndentedQuery(n - 1, indents) \o <<"\n">> \o Spaces(indents[n - 1]) \o <<Words[n]>>

IndentedQueries ==
    UNION { {IndentedQuery(n, indents) : indents \in [1..(n - 1) -> 0..MaxIndent]}
            : n \in 1..MaxWords }

\* the pieces a query with cursor references is made of: the two fragments
\* and text that is neither
PlainSegments == { <<"x", ",", " ">>, <<"before:", " ", "$cursor">> }

Segments == PlainSegments \cup {AfterCursor, CursorDecl}

RECURSIVE Concat(_)
Concat(segs) == IF segs = <<>> THEN <<>> ELSE Head(segs) \o Concat(Tail(segs))

SegmentSeqs == UNION { [1..n -> Segments] : n \in 0..MaxSegments }

CursorQueries == {Concat(segs) : segs \in SegmentSeqs}

\* the variables mapping: without cursor, with an empty one, with a cursor
CursorVariables == GqlVariables \cup { [q |-> <<"x">>, cursor |-> <<>>] }

InitQuery ==
    /\ hostname = HOSTNAME
    /\ pc = "init"
    /\ endpoint = <<"/graphql">>
    /\ requests = <<>>
    /\ yielded = <<>>
    /\ pulls = 0
    /\ result = NoResult
    /\ gquery \in IndentedQueries \cup CursorQueries
    /\ gorig \in CursorVariables
    /\ gvars = gorig
    /\ gpage = FALSE
    /\ gkeys = <<>>
    /\ gconn = 0
    /\ gscript = NoScript
    /\ attempts = 0
    /\ clock = 0
    /\ posts = <<>>
    /\ gresp = NoBody
    /\ RestIdle
    /\ TotalIdle
    /\ ClsIdle
    /\ ConcIdle
    /\ TeleIdle

\* GitHubAPI.sanitize_query(query)
SanitizeQuery ==
    /\ pc = "init"
    /\ pc' = "sanitized"
    /\ result' = [kind |-> "return", val |-> sanitize_query(gquery)]
    /\ UNCHANGED <<hostname, endpoint, requests, yielded, pulls>>
    /\ UNCHANGED <<restOnly, totalOnly, clsOnly, concOnly, teleOnly, gqlOnly>>

\* GitHubAPI.clear_cursor(query, variables.get('cursor'))
ClearCursor ==
    /\ pc = "init"
    /\ pc' = "cursor_cleared"
    /\ result' = [kind |-> "return", val |-> clear_cursor(gquery, NoCursorIn(gvars))]
    /\ UNCHANGED <<hostname, endpoint, requests, yielded, pulls>>
    /\ UNCHANGED <<restOnly, totalOnly, clsOnly, concOnly, teleOnly, gqlOnly>>

NextQuery == SanitizeQuery \/ ClearCursor

SpecQuery == InitQuery /\ [][NextQuery]_vars

\* ------------------------------------------------------- query: properties
IsWord(t) == t \notin {" ", "\n"}

\* the words of a sequence joined by single spaces
RECURSIVE JoinWords(_)
JoinWords(ws) ==
    IF Len(ws) <= 1 THEN ws
    ELSE <<Head(ws), " ">> \o JoinWords(Tail(ws))

\* C16: for a query of non-empty tokens separated by a newline followed by any
\* number (0 or more) of indentation spaces, sanitize_query returns the same
\* tokens in the same order separated by exactly one space, with no leading
\* or trailing whitespace.
C16_SanitizeCollapses ==
    (pc = "sanitized" /\ gquery \in IndentedQueries) =>
        result.val = JoinWords(SelectSeq(gquery, IsWord))

IsPlain(seg) == seg \in PlainSegments

\* C17: without an active cursor (the mapping has none or an empty one)
\* clear_cursor removes every after: $cursor fragment and every
\* $cursor: String! fragment and leaves the rest of the query as it was; with
\* a cursor it returns the query unchanged.
C17_ClearCursorRemovesFragments ==
    (pc = "cursor_cleared") =>
        IF NoCursorIn(gvars)
        THEN /\ ~Contains(result.val, AfterCursor)
             /\ ~Contains(result.val, CursorDecl)
             /\ \A segs \in SegmentSeqs :
                   (Concat(segs) = gquery) =>
                       (result.val = Concat(SelectSeq(segs, IsPlain)))
             /\ (gquery \in IndentedQueries) => (result.val = gquery)
        ELSE result.val = gquery

\* a query holding both fragments, one of them twice, cleared for a mapping
\* whose cursor is the empty string
C17_Witness ==
    /\ pc = "cursor_cleared"
    /\ "cursor" \in DOMAIN gvars
    /\ gvars["cursor"] = <<>>
    /\ gquery = AfterCursor \o CursorDecl \o AfterCursor
    /\ result.val = <<>>

\* ----------------------------------------------------- graphql(): properties
GqlEnded == pc \in {"returned", "raised"}

\* C8: in a non-paged graphql call every response with a RATE_LIMITED entry
\* (first entry or not) makes the decorator wait WAIT_FIXED ms and issue the
\* call again with the original query and variables; a response whose errors
\* are all of another type raises GraphqlError with the first entry's message
\* at once: after R rate-limited responses (R below the cap) the call has
\* issued exactly R + 1 requests, exactly one when R = 0.
C8_RateLimitedRetriesOtherRaises ==
    (/\ ~gpage
     /\ gscript.limited = 0 \/ gscript.limitedWith \in RateLimitedBodies) =>
        /\ gvars = gorig
        /\ \A i \in DOMAIN posts :
              /\ posts[i].variables = gorig
              /\ posts[i] = posts[1]
        /\ clock = WAIT_FIXED * (attempts - 1)
        /\ (pc = "gql_retry") => (Len(posts) = attempts - 1 /\ Len(posts) <= gscript.limited)
        /\ GqlEnded =>
              /\ Len(posts) = attempts
              /\ Len(posts) = Min(gscript.limited + 1, STOP_MAX_ATTEMPT_NUMBER)
        /\ (/\ GqlEnded
            /\ gscript.limited < STOP_MAX_ATTEMPT_NUMBER
            /\ ~gscript.finalIsData
            /\ gscript.final \in OtherErrorBodies) =>
              /\ pc = "raised"
              /\ result.val.type = "GraphqlError"
              /\ result.val.message = gscript.final.json["errors"][1]["message"]

\* two responses whose RATE_LIMITED entry is the second one were retried, then
\* a NOT_FOUND response raised GraphqlError on the third request
C8_Witness ==
    /\ ~gpage
    /\ gscript.limited = 2
    /\ gscript.limitedWith = ErrorBody(<<ErrNotFound, ErrRateLimited>>)
    /\ gscript.final = ErrorBody(<<ErrNotFound>>)
    /\ pc = "raised"
    /\ result.val.type = "GraphqlError"
    /\ Len(posts) = 3
    /\ clock = 2 * WAIT_FIXED

\* C9: in a paged graphql call a rate-limit error raised while the consumer
\* pulls a page is caught by the retry wrapper and restarts the traversal; it
\* does not reach the consumer before the attempt cap is exhausted.
C9_PagedRateLimitRetried ==
    (/\ gpage
     /\ pc = "gql_gen_raised"
     /\ result.val.type = "GraphqlRateLimitError") =>
        attempts >= STOP_MAX_ATTEMPT_NUMBER

\* C10: when every response to a non-paged graphql call is rate-limited, the
\* call never returns normally, never issues more than 60 requests, and ends
\* after exactly 60 requests and 59 waits by raising the GraphqlRateLimitError
\* of the last attempt.
C10_RetryBoundedByAttempts ==
    (/\ ~gpage
     /\ gscript.limitedWith \in RateLimitedBodies
     /\ gscript.limited >= STOP_MAX_ATTEMPT_NUMBER) =>
        /\ pc # "returned"
        /\ attempts <= STOP_MAX_ATTEMPT_NUMBER
        /\ Len(posts) <= STOP_MAX_ATTEMPT_NUMBER
        /\ (Len(posts) = STOP_MAX_ATTEMPT_NUMBER) => (pc = "raised")
        /\ (pc = "raised") =>
              /\ Len(posts) = STOP_MAX_ATTEMPT_NUMBER
              /\ clock = WAIT_FIXED * (STOP_MAX_ATTEMPT_NUMBER - 1)
              /\ result.val.type = "GraphqlRateLimitError"
              /\ result.val.message = "API rate limit exceeded"

C10_Witness ==
    /\ ~gpage
    /\ gscript.limitedWith \in RateLimitedBodies
    /\ gscript.limited > STOP_MAX_ATTEMPT_NUMBER
    /\ pc = "raised"
    /\ Len(posts) = 60
    /\ result.val.type = "GraphqlRateLimitError"

\* C11: for a connection served as M >= 1 pages (every response well formed,
\* the result path addressing the connection) the generator of
\* _get_graphql_page yields one edge list per pull, the k-th being that of page
\* k, for the first M pulls, and ends at pull M + 1 without a further request;
\* the first request carries an empty cursor and page size 100, and request
\* k + 1 carries as cursor the endCursor that response k reported.
C11_GraphqlPagesInOrder ==
    (/\ gpage
     /\ gscript.limited = 0
     /\ gkeys = GoodKeys) =>
        /\ pc # "gql_gen_raised"
        /\ Len(yielded) = Min(pulls, gconn)
        /\ Len(posts) = Len(yielded)
        /\ \A k \in DOMAIN yielded : yielded[k] = Edges(k)
        /\ \A k \in DOMAIN posts :
              /\ {"page_size", "cursor"} \subseteq DOMAIN posts[k].variables
              /\ posts[k].variables["page_size"] = 100
              /\ posts[k].variables["cursor"] =
                    (IF k = 1 THEN <<>>
                     ELSE DataBody(gconn, k - 1).json["data"]["search"]["pageInfo"]["endCursor"])
        /\ (pc = "gql_gen_done") <=> (pulls > gconn)

\* a three-page connection traversed to its end by a caller whose mapping held
\* a cursor of its own
C11_Witness ==
    /\ gpage
    /\ gscript.limited = 0
    /\ gkeys = GoodKeys
    /\ gconn = 3
    /\ "cursor" \in DOMAIN gorig
    /\ pc = "gql_gen_done"
    /\ pulls = 4
    /\ Len(yielded) = 3
    /\ posts[3].variables["cursor"] = Cursor(2)

\* the body of the response to the last POST of a non-paged call
LastBody == GqlRespond(gscript, Len(posts), gconn, gvars)

HasRateLimited(errs) == \E i \in DOMAIN errs : GetOr(errs[i], "type") = "RATE_LIMITED"

\* C12: for every response body with an errors array raise_if_error raises
\* GraphqlRateLimitError when an entry has type RATE_LIMITED and otherwise
\* GraphqlError carrying the first entry's message, and no other kind of
\* exception; for a body without an errors key it raises nothing (the call
\* returns the body).
C12_RaiseIfErrorStructuredOnly ==
    (/\ ~gpage
     /\ GqlEnded
     /\ ~LastBody.isNone) =>
        IF "errors" \in DOMAIN LastBody.json
        THEN /\ pc = "raised"
             /\ IF HasRateLimited(LastBody.json["errors"])
                THEN result.val.type = "GraphqlRateLimitError"
                ELSE /\ result.val.type = "GraphqlError"
                     /\ IF LastBody.json["errors"] = <<>> THEN TRUE
                        ELSE IF "message" \notin DOMAIN LastBody.json["errors"][1] THEN TRUE
                        ELSE result.val.message = LastBody.json["errors"][1]["message"]
        ELSE /\ pc = "returned"
             /\ result.val = LastBody

\* ------------------------------------------------------ further properties
\* C13: get(endpoint, _get='all', _attributes=keys) with a non-empty key list
\* returns a list as long as the accumulated items whose element i holds
\* exactly the pairs of item i whose key is in the list (a listed key the item
\* lacks is dropped, nothing is raised); without a key list it returns the
\* items unchanged.  In page mode and in single-request mode the bodies are
\* handed out unfiltered.
C13_FilterKeys ==
    /\ (directive = "all" /\ pc = "returned") =>
          /\ result.kind = "return"
          /\ IF attributes = <<>> THEN result.val = items
             ELSE /\ Len(result.val) = Len(items)
                  /\ \A i \in DOMAIN items :
                        /\ DOMAIN result.val[i] = DOMAIN items[i] \cap Range(attributes)
                        /\ \A key \in DOMAIN result.val[i] :
                              result.val[i][key] = items[i][key]
    /\ (directive = "page") =>
          \A i \in DOMAIN yielded : yielded[i] = RawGet(rserver, requests[i]).body
    /\ (directive = "none" /\ pc = "returned" /\ result.kind = "return") =>
          result.val = RawGet(rserver, requests[1]).body

\* three or more items filtered by a list that names a key they have and a
\* key they lack
C13_Witness ==
    /\ directive = "all"
    /\ pc = "returned"
    /\ attributes = <<"id", "zz">>
    /\ Len(items) >= 3
    /\ Len(result.val) = Len(items)
    /\ DOMAIN items[1] = {"id", "name"}
    /\ DOMAIN result.val[1] = {"id"}
    /\ result.val[3]["id"] = items[3]["id"]

\* a truthy response to an issued request carried a next relation whose host
\* is not the client's
ForeignLinkAt(i) ==
    LET resp == RawGet(rserver, requests[i])
    IN /\ ~IsAbsolute(requests[i])
       /\ resp.ok
       /\ "next" \in DOMAIN resp.links
       /\ resp.links["next"][2] # hostname

\* C15: a next relation whose host is not the client's host makes the
\* traversal stop with an error before any request for that url is issued; a
\* next relation on the client's host is followed at the url with its
\* https://<host> prefix removed.
C15_ForeignHostFatal ==
    /\ \A i \in DOMAIN requests : ~IsAbsolute(requests[i])
    /\ \A i \in DOMAIN requests :
          ForeignLinkAt(i) =>
             /\ Len(requests) = i
             /\ (directive = "all") => (pc = "raised" /\ result.kind = "raise")
             /\ (directive = "page") => (pc \in {"gen_suspended", "gen_raised"})
    /\ \A i \in 1..(Len(requests) - 1) :
          LET resp == RawGet(rserver, requests[i])
          IN (resp.ok /\ "next" \in DOMAIN resp.links /\ resp.links["next"][2] = hostname) =>
                requests[i + 1] = SubSeq(resp.links["next"], 3, Len(resp.links["next"]))

\* the keys of a dotted path, in order
IsKey(t) == t # "."

PathKeys(keys) == SelectSeq(keys, IsKey)

\* every key of ks is present when followed in order through the mapping
RECURSIVE Resolves(_, _)
Resolves(data, ks) ==
    IF ks = <<>> THEN TRUE
    ELSE Head(ks) \in DOMAIN data /\ Resolves(data[Head(ks)], Tail(ks))

\* the value reached by following ks in order
RECURSIVE Follow(_, _)
Follow(data, ks) == IF ks = <<>> THEN data ELSE Follow(data[Head(ks)], Tail(ks))

EdgesPath == PathKeys(gkeys \o <<".", "edges">>)

\* C18: in a paged traversal over well-formed responses, when every key of
\* <keys>.edges is present each yielded page is the value reached by following
\* the keys in order through the response; when a key (first, middle or last)
\* is missing the first pull raises KeyError after its one request and nothing,
\* not even an empty page, is ever yielded.
C18_GetValueFollowsOrFails ==
    (gpage /\ gscript.limited = 0) =>
        IF Resolves(DataBody(gconn, 1).json, EdgesPath)
        THEN /\ \A k \in DOMAIN yielded :
                   yielded[k] = Follow(DataBody(gconn, k).json, EdgesPath)
             /\ (pulls >= 1) => (yielded # <<>>)
             /\ pc # "gql_gen_raised"
        ELSE /\ yielded = <<>>
             /\ (pulls >= 1) =>
                   /\ pc = "gql_gen_raised"
                   /\ result.kind = "raise"
                   /\ result.val.type = "KeyError"
                   /\ Len(posts) = 1

\* the path data.edges lacks its last key: the first pull raised KeyError
C18_Witness ==
    /\ gpage
    /\ gscript.limited = 0
    /\ gkeys = <<"data">>
    /\ ~Resolves(DataBody(gconn, 1).json, EdgesPath)
    /\ pulls = 1
    /\ pc = "gql_gen_raised"
    /\ result.val.type = "KeyError"
    /\ yielded = <<>>

\* C19: check_graphqlratelimiterror answers retry for the GraphQL rate-limit
\* error and for nothing else: GraphqlError, KeyError, TypeError, HTTP errors
\* and every other failure get no-retry, so they surface after one attempt.
C19_GraphqlRetriesOnlyRateLimit ==
    (pc = "classified_graphql") =>
        (result.val <=> (exc.type = "GraphqlRateLimitError"))

\* C20: when pages 1..k-1 are truthy and linked and the response for page k
\* is falsy, get(endpoint, _get='all') never raises: it stops at that
\* response, with exactly k requests issued, and returns the items of pages
\* 1..k-1 (the empty list when k = 1), whatever relation links the falsy
\* response carries.
C20_FetchAllStopsOnFalsy ==
    (directive = "all" /\ ~rserver[Len(rserver)].ok) =>
        /\ pc # "raised"
        /\ Len(requests) <= Len(rserver)
        /\ (Len(requests) = Len(rserver)) <=> (pc = "returned")
        /\ (pc = "returned") =>
              /\ requests = [p \in 1..Len(rserver) |-> PageEndpoint(p)]
              /\ items = Flatten(rserver, Len(rserver) - 1)
              /\ result = [kind |-> "return", val |-> match_keys(items, attributes)]

\* the third response is falsy and carries a next relation: the call returned
\* the items of the first two pages after three requests
C20_Witness ==
    /\ directive = "all"
    /\ attributes = <<>>
    /\ Len(rserver) = 3
    /\ ~rserver[3].ok
    /\ "next" \in DOMAIN rserver[3].links
    /\ pc = "returned"
    /\ Len(requests) = 3
    /\ Len(items) >= 3
    /\ result.val = Flatten(rserver, 2)

\* _get_all as a function of the server: the requests it issues and the list
\* it returns, `fuel` bounding the number of requests followed
RECURSIVE _get_all(_, _, _, _, _, _)
_get_all(server, host, ep, its, reqs, fuel) ==
    LET resp == RawGet(server, ep)
        acc  == Accumulate(its, resp)
        nxt  == _get_next_endpoint(host, NextUrlOf(resp))
    IN IF fuel = 0 THEN [ended |-> FALSE, items |-> its, requests |-> reqs]
       ELSE IF nxt = NoUrl
       THEN [ended |-> TRUE, items |-> acc, requests |-> Append(reqs, ep)]
       ELSE _get_all(server, host, nxt, acc, Append(reqs, ep), fuel - 1)

FetchAllOf(server) == _get_all(server, HOSTNAME, StartEndpoint, <<>>, <<>>, MaxRequests)

\* the batch pull i of the generator stands for: the elements of a list
\* payload, a single object as a one-element batch, the empty batch for a
\* falsy response
BatchOf(i) ==
    IF ~RawGet(rserver, requests[i]).ok THEN <<>>
    ELSE IF yielded[i].isList THEN yielded[i].list
    ELSE <<yielded[i].obj>>

RECURSIVE ConcatBatches(_)
ConcatBatches(n) == IF n = 0 THEN <<>> ELSE ConcatBatches(n - 1) \o BatchOf(n)

\* C21: for every server the two modes perform the same traversal: the
\* exhausted generator of get(endpoint, _get='page') has issued the requests
\* that get(endpoint, _get='all') issues, and its batches, concatenated, are
\* the list fetchAll returns.
C21_StreamEqualsFetchAll ==
    /\ (directive = "all" /\ pc = "returned") =>
          /\ FetchAllOf(rserver).ended
          /\ requests = FetchAllOf(rserver).requests
          /\ items = FetchAllOf(rserver).items
    /\ (directive = "page" /\ pc = "gen_done") =>
          /\ FetchAllOf(rserver).ended
          /\ requests = FetchAllOf(rserver).requests
          /\ ConcatBatches(Len(yielded)) = FetchAllOf(rserver).items
    /\ (directive = "page" /\ FetchAllOf(rserver).ended) =>
          Len(requests) <= Len(FetchAllOf(rserver).requests)

\* C22: whenever the first response carries no last relation, its relation
\* set being empty or holding only other relations, total returns the count
\* of items in that response, raises nothing and issues no second request.
C22_TotalWithoutLast ==
    (/\ pc # "init"
     /\ ~HasPerPage(targ)
     /\ "last" \notin DOMAIN tfirst.links) =>
        /\ pc = "returned"
        /\ result = [kind |-> "return", val |-> tfirst.count]
        /\ Len(requests) = 1

\* C23: when the url of the last relation has no page parameter to parse,
\* total ends by raising an error and never returns a number.
C23_TotalUnparsableLastFatal ==
    (/\ pc \in {"returned", "raised"}
     /\ ~HasPerPage(targ)
     /\ "last" \in DOMAIN tfirst.links
     /\ ~HasParam(tfirst.links["last"], <<"page", "=">>)) =>
        /\ pc = "raised"
        /\ result.kind = "raise"

\* C24: for every order of the parameters get_page_from_url returns the value
\* of the page parameter of the url (None when it has none, never the value
\* of per_page) and get_per_page_from_url returns the value of its per_page
\* parameter (30 when it has none).
C24_ParseOwnParameter ==
    /\ (pc = "page_parsed") =>
          IF HasParam(tfirst.links["last"], <<"page", "=">>)
          THEN /\ result.val.matched
               /\ result.val.value = ParamValue(tfirst.links["last"], <<"page", "=">>)
          ELSE ~result.val.matched
    /\ (pc = "per_page_parsed") =>
          (result.val = PageSizeOf(tfirst.links["last"]))

\* ------------------------------------------------ REST traversal: termination
\* The server answers an endpoint the same way every time it is asked, so a
\* traversal that requests an endpoint it has requested before repeats from
\* there without end.
\* C27: for every relation-link structure, also one whose next relation points
\* back to a visited endpoint, _get_all and _get_page request no endpoint twice
\* in one traversal.
C27_NoEndpointRevisited ==
    (directive \in {"all", "page"}) =>
        \A i, j \in DOMAIN requests : i # j => requests[i] # requests[j]

====
